---- MODULE Spec2Model ----
(***************************************************************************)
(* The simulation core of garden (src/src/world/mod.rs): the World, its    *)
(* per-tick update pass, the four entity kinds, the Eater's goal           *)
(* selection, and the pause / manual-update controls; the pathfinder        *)
(* (src/src/world/garden_pathfinding.rs) followed through its search; and  *)
(* the threads of src/src/lib.rs that share the World behind a RwLock.     *)
(*                                                                         *)
(* Indices are 1-based here (a Rust index k is k+1 in the model); index 0  *)
(* stands for Option::None.                                                *)
(***************************************************************************)
EXTENDS Integers, Sequences, FiniteSets, TLC

\* ------------------------------------------------------------------ bounds
\* World::new(width, height): the grid of the worlds explored.
Width == 2
Height == 2
\* How many update() passes one behaviour runs.
MaxTicks == 2
\* The largest World a_star_pathfind is called on by itself: wide enough for
\* an ignore list to force a way round.
PathWidth == 3
PathHeight == 2
\* The grid of the World in which the GetFood branch is followed on its own.
PlanWidth == 4
PlanHeight == 4

\* ------------------------------------------------------- program constants
HungerThreshold == 20
DieHunger == 99
DieAge == 1000
ReproduceHunger == 20
ReproduceAge == 40
ReproduceTicks == 40
FoodReward == 20
SPAWN_AFTER_X_TICKS == 20
SpawnEveryXTicks == 10
InitialMinDistance == 99999999
I8Max == 127
I8Min == -128
TICK_RATE_MS == 100

VARIABLES
    entities,                \* World.entities
    removed_entity_indices,  \* World.removed_entity_indices
    active,                  \* World.active
    manual_update_requested, \* World.manual_update_requested
    pc,                      \* "idle" | "updating" (inside update()) | "panicked"
    i,                       \* the loop index of update(), 0 outside a pass
    spawned_entities,        \* update()'s local spawned_entities
    tick_start,              \* history: World.entities when the pass began
    ticks,                   \* history: how many update() passes have begun
    last_call,               \* history: the World method called last
    call,                    \* a_star_pathfind: the arguments of the call in progress
    to_see,                  \* astar(): the open entries
    parents,                 \* astar(): node -> the node it was reached from, its cost
    returned,                \* a_star_pathfind: what the call gave
    writer,                  \* RwLock<ConfiguredWorld>: the thread holding it for writing
    readers,                 \* RwLock<ConfiguredWorld>: the threads holding it for reading
    thread_at,               \* where each thread of lib.rs stands
    msg,                     \* the text message a websocket handler is serving
    tick_rate,               \* ConfiguredWorld.tick_rate
    generators_used          \* history: the generators update() has been handed

search == <<call, to_see, parents, returned>>

threads == <<writer, readers, thread_at, msg, tick_rate, generators_used>>

vars == <<entities, removed_entity_indices, active, manual_update_requested,
          pc, i, spawned_entities, tick_start, ticks, last_call, search, threads>>

world == <<entities, removed_entity_indices, active, manual_update_requested>>

\* ---------------------------------------------------------------- helpers
Min(S) == CHOOSE m \in S : \A n \in S : m <= n
Abs(n) == IF n < 0 THEN -n ELSE n

\* --------------------------------------------------------------- Position
Position(x, y) == [x |-> x, y |-> y]
Origin == Position(0, 0)
Cells == {Position(x, y) : x \in 0..(Width - 1), y \in 0..(Height - 1)}

CARDINAL_DIRECTIONS == <<"Up", "Right", "Down", "Left">>

\* for i in 0..CARDINAL_DIRECTIONS.len() - 1: the re-planning loop of GetFood
\* runs this many times.
PathRetries == Len(CARDINAL_DIRECTIONS) - 1

\* --------------------------------------------------------------- entities
\* One record shape for the four kinds; a field a kind does not have is 0
\* (Origin for position) and never read.
Entity(kind, position, hunger, age, last_reproduced, last_spawned, every, twe) ==
    [kind |-> kind, position |-> position, hunger |-> hunger, age |-> age,
     last_reproduced |-> last_reproduced, last_spawned |-> last_spawned,
     spawn_every_x_ticks |-> every, ticks_without_eater |-> twe]

FoodNew(position) == Entity("food", position, 0, 0, 0, 0, 0, 0)
FoodSpawnerNew(last_spawned, every) ==
    Entity("food_spawner", Origin, 0, 0, 0, last_spawned, every, 0)
EaterSpawnerNew(twe) == Entity("eater_spawner", Origin, 0, 0, 0, 0, 0, twe)
\* An Eater with the given desire, age and reproduction timer.
EaterWith(position, hunger, age, last_reproduced) ==
    Entity("eater", position, hunger, age, last_reproduced, 0, 0, 0)
\* Eater::new: hunger 0, age 0, last_reproduced 0.
EaterNew(position) == EaterWith(position, 0, 0, 0)

get_name(e) ==
    CASE e.kind = "food" -> "food"
      [] e.kind = "eater" -> "eater"
      [] e.kind = "eater_spawner" -> "eater spawner"
      [] OTHER -> "unnamed"

\* Food and Eater report their own position; both spawners report (0,0).
get_position(e) ==
    IF e.kind \in {"food", "eater"} THEN e.position ELSE Origin

\* ------------------------------------------------------------ World views
\* The removal marks never consulted.
IsRemovedNever(removed, idx) == FALSE

\* removed_entity_indices.iter().any(|j| *j == i)
IsRemoved(removed, idx) == \E k \in 1..Len(removed) : removed[k] = idx

Indices(ents) == [k \in 1..Len(ents) |-> k]

NamedEntities(ents, removed, name) ==
    LET Keep(idx) == ~IsRemoved(removed, idx) /\ get_name(ents[idx]) = name
    IN  SelectSeq(Indices(ents), Keep)

get_food_entities(ents, removed) == NamedEntities(ents, removed, "food")

get_eater_entities(ents, removed) == NamedEntities(ents, removed, "eater")

\* The index of the first entity at `position` that is not queued for
\* removal, 0 for None.
get_entity_at(ents, removed, position) ==
    LET hits == {idx \in 1..Len(ents) :
                    ~IsRemoved(removed, idx) /\ get_position(ents[idx]) = position}
    IN  IF hits = {} THEN 0 ELSE Min(hits)

\* get_new_position without its edge tests: the move is always made.
get_new_positionUnchecked(cur_position, direction) ==
    CASE direction = "Up" -> Position(cur_position.x, cur_position.y - 1)
      [] direction = "Right" -> Position(cur_position.x + 1, cur_position.y)
      [] direction = "Down" -> Position(cur_position.x, cur_position.y + 1)
      [] OTHER -> Position(cur_position.x - 1, cur_position.y)

get_new_position(cur_position, direction) ==
    LET moved ==
            CASE direction = "Up" ->
                    IF cur_position.y = 0 THEN cur_position
                    ELSE Position(cur_position.x, cur_position.y - 1)
              [] direction = "Right" ->
                    IF cur_position.x = Width - 1 THEN cur_position
                    ELSE Position(cur_position.x + 1, cur_position.y)
              [] direction = "Down" ->
                    IF cur_position.y = Height - 1 THEN cur_position
                    ELSE Position(cur_position.x, cur_position.y + 1)
              [] OTHER ->
                    IF cur_position.x = 0 THEN cur_position
                    ELSE Position(cur_position.x - 1, cur_position.y)
        fixed_x == IF moved.x >= Width THEN cur_position.x ELSE moved.x
        fixed_y == IF moved.y >= Height THEN cur_position.y ELSE moved.y
    IN  Position(fixed_x, fixed_y)

\* ------------------------------------------------------------ pathfinding
\* garden_pathfinding.rs. The successor closure: the cardinal neighbours
\* inside the grid that are not ignored, each at cost 1.
NEIGHBOR_DIRECTIONS == <<Position(0, -1), Position(1, 0), Position(0, 1), Position(-1, 0)>>

\* The successor closure with the ignore list never consulted.
successorsUnfiltered(width, height, p, ignored_position) ==
    {q \in {Position(p.x + NEIGHBOR_DIRECTIONS[k].x, p.y + NEIGHBOR_DIRECTIONS[k].y) :
                k \in 1..Len(NEIGHBOR_DIRECTIONS)} :
        /\ 0 <= q.x /\ q.x < width
        /\ 0 <= q.y /\ q.y < height}

\* The successor closure in a World of the given width and height.
successors(width, height, p, ignored_position) ==
    {q \in {Position(p.x + NEIGHBOR_DIRECTIONS[k].x, p.y + NEIGHBOR_DIRECTIONS[k].y) :
                k \in 1..Len(NEIGHBOR_DIRECTIONS)} :
        /\ 0 <= q.x /\ q.x < width
        /\ 0 <= q.y /\ q.y < height
        /\ q \notin ignored_position}

Neighbors(p, ignored_position) == successors(Width, Height, p, ignored_position)

\* The cost astar() finds. Its heuristic, Manhattan distance / 3, never
\* overestimates and changes by at most 1 along an edge, so the cost is that
\* of a shortest path over the successor closure; -1 when the goal cannot be
\* reached (astar returns None).
RECURSIVE SearchCostIn(_, _, _, _, _, _, _)
SearchCostIn(width, height, frontier, seen, goal, ignored_position, cost) ==
    IF goal \in frontier THEN cost
    ELSE LET next == (UNION {successors(width, height, p, ignored_position) :
                                p \in frontier}) \ seen
         IN  IF next = {} THEN -1
             ELSE SearchCostIn(width, height, next, seen \cup next, goal,
                               ignored_position, cost + 1)

ShortestCostIn(width, height, start, goal, ignored_position) ==
    SearchCostIn(width, height, {start}, {start}, goal, ignored_position, 0)

\* a_star_pathfind in a World of the given width and height: the set of
\* results the call can give. Which of several shortest paths astar() returns
\* is decided inside the pathfinding crate, so every first step of a shortest
\* path is a possible result. found = FALSE is the panic "No path to goal
\* found".
a_star_pathfindIn(width, height, cur_pos, goal, ignored_position) ==
    IF cur_pos = goal
    THEN {[found |-> TRUE, cost |-> 1, step |-> cur_pos]}
    ELSE LET c == ShortestCostIn(width, height, cur_pos, goal, ignored_position)
         IN  IF c < 0
             THEN {[found |-> FALSE, cost |-> 0, step |-> cur_pos]}
             ELSE {[found |-> TRUE, cost |-> c, step |-> q] :
                      q \in {n \in successors(width, height, cur_pos, ignored_position) :
                                ShortestCostIn(width, height, n, goal, ignored_position)
                                    = c - 1}}

\* The same in the World of the model.
SearchCost(frontier, seen, goal, ignored_position, cost) ==
    SearchCostIn(Width, Height, frontier, seen, goal, ignored_position, cost)

ShortestCost(start, goal, ignored_position) ==
    ShortestCostIn(Width, Height, start, goal, ignored_position)

a_star_pathfind(cur_pos, goal, ignored_position) ==
    a_star_pathfindIn(Width, Height, cur_pos, goal, ignored_position)

\* ---------------------------------------------------- astar(), step by step
\* The same call followed through the loop of astar() in the pathfinding
\* crate: `to_see` holds the open entries (estimated cost, cost, node),
\* `parents` the best known way into every node reached.
NoCall ==
    [width |-> 0, height |-> 0, cur_pos |-> Origin, goal |-> Origin,
     ignored_position |-> {}]
NotReturned == [done |-> FALSE, found |-> FALSE, cost |-> 0, step |-> Origin]

\* |p| ((p.x - goal.x).abs() + (p.y - goal.y).abs()) / 3
heuristic(p, goal) == (Abs(p.x - goal.x) + Abs(p.y - goal.y)) \div 3

\* A move priced at two.
move_costDouble(p) == 2
\* neighbors.push((Position {..}, 1)): the cost of the move into p.
move_cost(p) == 1

\* The entries the binary heap may give next: those of least estimated cost
\* (how equal entries are ordered is the heap's business).
Smallest(entries) ==
    {e \in entries : \A f \in entries : e.estimated_cost <= f.estimated_cost}

\* reverse_path: the nodes from the start to `node` along `parents`.
RECURSIVE reverse_path(_, _, _)
reverse_path(reached, node, start) ==
    IF node = start THEN <<node>>
    ELSE Append(reverse_path(reached, reached[node].parent, start), node)

\* The match on Some((p, c)) with the one-node path returned as it is found.
ResultUnguarded(p, c) ==
    [done |-> TRUE, found |-> TRUE, cost |-> c, step |-> p[Len(p)]]

\* match result { Some((p, c)) => .. }
Result(p, c) ==
    IF Len(p) = 1
    THEN [done |-> TRUE, found |-> TRUE, cost |-> 1, step |-> p[1]]
    ELSE [done |-> TRUE, found |-> TRUE, cost |-> c, step |-> p[2]]

\* None => panic!("No path to goal found")
NoPath == [done |-> TRUE, found |-> FALSE, cost |-> 0, step |-> Origin]

Searching == call # NoCall /\ ~returned.done

\* The successors of an expanded entry that get a place in `parents`: a node
\* not reached before, or one reached at a higher cost.
Improved(e) ==
    {q \in successors(call.width, call.height, e.node, call.ignored_position) :
        \/ q \notin DOMAIN parents
        \/ parents[q].cost > e.cost + move_cost(q)}

\* One turn of `while let Some(..) = to_see.pop()`: the goal is popped and the
\* call returns, or a superseded entry is dropped, or the entry is expanded.
AStarPop ==
    /\ Searching
    /\ \E e \in Smallest(to_see) :
        IF e.node = call.goal
        THEN /\ returned' = Result(reverse_path(parents, e.node, call.cur_pos), e.cost)
             /\ to_see' = to_see \ {e}
             /\ UNCHANGED parents
        ELSE IF e.cost > parents[e.node].cost
        THEN /\ to_see' = to_see \ {e}
             /\ UNCHANGED <<parents, returned>>
        ELSE LET improved == Improved(e)
             IN  /\ parents' =
                        [q \in DOMAIN parents \cup improved |->
                            IF q \in improved
                            THEN [parent |-> e.node, cost |-> e.cost + move_cost(q)]
                            ELSE parents[q]]
                 /\ to_see' = (to_see \ {e}) \cup
                        {[estimated_cost |->
                              e.cost + move_cost(q) + heuristic(q, call.goal),
                          cost |-> e.cost + move_cost(q),
                          node |-> q] : q \in improved}
                 /\ UNCHANGED returned
    /\ UNCHANGED <<call, world, pc, i, spawned_entities, tick_start, ticks, last_call,
                   threads>>

\* to_see is empty: astar() gives None and a_star_pathfind panics.
AStarNone ==
    /\ Searching
    /\ to_see = {}
    /\ returned' = NoPath
    /\ UNCHANGED <<call, to_see, parents, world, pc, i, spawned_entities, tick_start,
                   ticks, last_call, threads>>

\* ------------------------------------------------------------------ Eater
\* increment_desire on an i8: the set of outcomes. Inside -128..127 the sum is
\* clamped below at 0. Outside it the addition overflows: a build with
\* overflow checks panics, one without wraps modulo 2^8.
increment_desire(level, increment) ==
    LET sum == level + increment
        Clamp(v) == IF v < 0 THEN 0 ELSE v
        wrapped == ((sum - I8Min) % (I8Max - I8Min + 1)) + I8Min
    IN  IF I8Min <= sum /\ sum <= I8Max
        THEN {[panic |-> FALSE, level |-> Clamp(sum)]}
        ELSE {[panic |-> TRUE, level |-> level],
              [panic |-> FALSE, level |-> Clamp(wrapped)]}

Distance(a, b) == Abs(a.x - b.x) + Abs(a.y - b.y)

\* ClosestFood comparing with <=: the last of the nearest wins.
RECURSIVE ClosestFoodLast(_, _, _, _, _, _)
ClosestFoodLast(self, ents, entity_indices, k, closest_idx, min_distance) ==
    IF k > Len(entity_indices) THEN closest_idx
    ELSE LET entity_idx == entity_indices[k]
             distance == Abs(get_position(ents[entity_idx]).x - self.position.x)
                         + Abs(get_position(ents[entity_idx]).y - self.position.y)
         IN  IF distance <= min_distance
             THEN ClosestFoodLast(self, ents, entity_indices, k + 1, entity_idx, distance)
             ELSE ClosestFoodLast(self, ents, entity_indices, k + 1, closest_idx, min_distance)

\* The loop of select_goal over the visible food indices.
RECURSIVE ClosestFood(_, _, _, _, _, _)
ClosestFood(self, ents, entity_indices, k, closest_idx, min_distance) ==
    IF k > Len(entity_indices) THEN closest_idx
    ELSE LET entity_idx == entity_indices[k]
             distance == Distance(get_position(ents[entity_idx]), self.position)
         IN  IF distance < min_distance
             THEN ClosestFood(self, ents, entity_indices, k + 1, entity_idx, distance)
             ELSE ClosestFood(self, ents, entity_indices, k + 1, closest_idx, min_distance)

Goal(name, idx) == [goal |-> name, idx |-> idx]

select_goal(self, ents, removed) ==
    LET entity_indices == get_food_entities(ents, removed)
        cur_hunger == self.hunger
        hunger_threshold == HungerThreshold
    IN  IF cur_hunger > DieHunger \/ self.age > DieAge
        THEN Goal("Die", 0)
        ELSE IF /\ cur_hunger < ReproduceHunger
                /\ self.age > ReproduceAge
                /\ self.last_reproduced > ReproduceTicks
        THEN Goal("Reproduce", 0)
        ELSE IF cur_hunger < hunger_threshold \/ Len(entity_indices) = 0
        THEN Goal("Wander", 0)
        ELSE Goal("GetFood",
                  ClosestFood(self, ents, entity_indices, 1, 1, InitialMinDistance))

\* move_attempts.shuffle(rand_gen): every order of the four directions.
Shuffles ==
    {s \in [1..Len(CARDINAL_DIRECTIONS) -> 1..Len(CARDINAL_DIRECTIONS)] :
        \A a, b \in DOMAIN s : a # b => s[a] # s[b]}

\* The loop of Wander and Reproduce over the shuffled directions. Its body
\* assigns next_position and then either executes `continue` (occupied) or
\* reaches the end of the body (free): both go on to the next direction, so
\* the value left is the one of the last direction tried.
RECURSIVE MoveAttempts(_, _, _, _, _, _)
MoveAttempts(self, ents, removed, move_attempts, k, next_position) ==
    IF k > Len(move_attempts) THEN next_position
    ELSE LET candidate == get_new_position(self.position,
                                           CARDINAL_DIRECTIONS[move_attempts[k]])
         IN  IF get_entity_at(ents, removed, candidate) # 0
             THEN MoveAttempts(self, ents, removed, move_attempts, k + 1, candidate)
             ELSE MoveAttempts(self, ents, removed, move_attempts, k + 1, candidate)

ShuffledMove(self, ents, removed) ==
    {MoveAttempts(self, ents, removed, s, 1, self.position) : s \in Shuffles}

\* The re-planning loop with the Eater stepping onto the cell the pathfinder
\* returns when the cost is 1.
RECURSIVE GetFoodLoopStepping(_, _, _, _, _, _)
GetFoodLoopStepping(self, ents, removed, food_position, attempt, ignored_positions) ==
    IF attempt > PathRetries
    THEN {[panic |-> FALSE, eaten |-> FALSE, position |-> self.position]}
    ELSE UNION {
            IF ~r.found
            THEN {[panic |-> TRUE, eaten |-> FALSE, position |-> self.position]}
            ELSE IF r.cost = 1
            THEN {[panic |-> FALSE, eaten |-> TRUE, position |-> r.step]}
            ELSE IF get_entity_at(ents, removed, r.step) = 0
            THEN {[panic |-> FALSE, eaten |-> FALSE, position |-> r.step]}
            ELSE GetFoodLoopStepping(self, ents, removed, food_position, attempt + 1,
                                     ignored_positions \cup {r.step})
            : r \in a_star_pathfind(self.position, food_position, ignored_positions)}

\* The re-planning loop of GetFood in a World of the given width and
\* height, `attempt` running over 0..CARDINAL_DIRECTIONS.len() - 1: the set of
\* ways it can end.
RECURSIVE GetFoodLoopIn(_, _, _, _, _, _, _, _)
GetFoodLoopIn(width, height, self, ents, removed, food_position, attempt, ignored_positions) ==
    IF attempt > PathRetries
    THEN {[panic |-> FALSE, eaten |-> FALSE, position |-> self.position]}
    ELSE UNION {
            IF ~r.found
            THEN {[panic |-> TRUE, eaten |-> FALSE, position |-> self.position]}
            ELSE IF r.cost = 1
            THEN {[panic |-> FALSE, eaten |-> TRUE, position |-> self.position]}
            ELSE IF get_entity_at(ents, removed, r.step) = 0
            THEN {[panic |-> FALSE, eaten |-> FALSE, position |-> r.step]}
            ELSE GetFoodLoopIn(width, height, self, ents, removed, food_position,
                               attempt + 1, ignored_positions \cup {r.step})
            : r \in a_star_pathfindIn(width, height, self.position, food_position,
                                      ignored_positions)}

GetFoodLoop(self, ents, removed, food_position, attempt, ignored_positions) ==
    GetFoodLoopIn(Width, Height, self, ents, removed, food_position, attempt,
                  ignored_positions)

\* What an entity's update returns: the replacement entity, the spawned
\* entity (a sequence of length 0 or 1), the index to remove (0 for None);
\* panic = TRUE when the call panics instead of returning.
Outcome(entity, spawned, removed_idx) ==
    [panic |-> FALSE, entity |-> entity, spawned |-> spawned, removed |-> removed_idx]
Panic(entity) ==
    [panic |-> TRUE, entity |-> entity, spawned |-> <<>>, removed |-> 0]

\* The lookup with the coordinates of the position crossed.
PositionLookupCrossed(self, ents) ==
    LET hits == {idx \in 1..Len(ents) :
                    /\ get_position(ents[idx]).x = self.position.y
                    /\ get_position(ents[idx]).y = self.position.x}
    IN  IF hits = {} THEN 0 ELSE Min(hits)

\* The first index whose entity reports self's position, 0 when there is none
\* (Iterator::position over world.entities: removal marks are not consulted).
PositionLookup(self, ents) ==
    LET hits == {idx \in 1..Len(ents) : get_position(ents[idx]) = self.position}
    IN  IF hits = {} THEN 0 ELSE Min(hits)

\* What the GetFood branch returns for each way `ends` its loop can end.
GetFoodOutcomes(self, new_eater, goal, ends) ==
    UNION {
        IF r.panic THEN {Panic(self)}
        ELSE IF r.eaten
        THEN {IF d.panic THEN Panic(self)
              ELSE Outcome([new_eater EXCEPT !.hunger = d.level,
                                             !.position = r.position],
                           <<>>, goal.idx) :
                 d \in increment_desire(new_eater.hunger, -FoodReward)}
        ELSE {Outcome([new_eater EXCEPT !.position = r.position], <<>>, 0)}
        : r \in ends}

\* The goal Eater::update acts on: select_goal is called on self, the state
\* the Eater entered the tick with, not on the incremented clone.
UpdateGoal(self, new_eater, ents, removed) == select_goal(self, ents, removed)

EaterGoalOutcomes(self, new_eater, ents, removed) ==
    LET goal == UpdateGoal(self, new_eater, ents, removed)
    IN  CASE goal.goal = "Wander" ->
                {Outcome([new_eater EXCEPT !.position = p], <<>>, 0) :
                    p \in ShuffledMove(self, ents, removed)}
          [] goal.goal = "GetFood" ->
                GetFoodOutcomes(self, new_eater, goal,
                                GetFoodLoop(self, ents, removed,
                                            get_position(ents[goal.idx]), 1, {}))
          [] goal.goal = "Die" ->
                LET self_idx == PositionLookup(self, ents)
                IN  IF self_idx = 0 THEN {Panic(self)}
                    ELSE {Outcome(new_eater, <<>>, self_idx)}
          [] OTHER ->
                {IF p # self.position
                 THEN Outcome([new_eater EXCEPT !.last_reproduced = 0],
                              <<EaterNew(p)>>, 0)
                 ELSE Outcome(new_eater, <<>>, 0) :
                    p \in ShuffledMove(self, ents, removed)}

\* Eater::update
EaterUpdate(self, ents, removed) ==
    UNION {
        IF d.panic THEN {Panic(self)}
        ELSE EaterGoalOutcomes(self,
                               [self EXCEPT !.hunger = d.level,
                                            !.age = self.age + 1,
                                            !.last_reproduced = self.last_reproduced + 1],
                               ents, removed)
        : d \in increment_desire(self.hunger, 1)}

\* ------------------------------------------------------------- FoodSpawner
\* rng.gen_range(0..world.width), rng.gen_range(0..world.height)
RandomCells == Cells

\* FoodSpawner::update with the interval compared by > instead of >=.
FoodSpawnerUpdateLate(self, ents, removed) ==
    IF self.last_spawned + 1 > self.spawn_every_x_ticks
    THEN {Outcome([self EXCEPT !.last_spawned = 0],
                  IF get_entity_at(ents, removed, spawn_position) = 0
                  THEN <<FoodNew(spawn_position)>> ELSE <<>>,
                  0) : spawn_position \in RandomCells}
    ELSE {Outcome([self EXCEPT !.last_spawned = self.last_spawned + 1], <<>>, 0)}

FoodSpawnerUpdate(self, ents, removed) ==
    IF self.last_spawned + 1 >= self.spawn_every_x_ticks
    THEN {Outcome([self EXCEPT !.last_spawned = 0],
                  IF get_entity_at(ents, removed, spawn_position) = 0
                  THEN <<FoodNew(spawn_position)>> ELSE <<>>,
                  0) : spawn_position \in RandomCells}
    ELSE {Outcome([self EXCEPT !.last_spawned = self.last_spawned + 1], <<>>, 0)}

\* ------------------------------------------------------------ EaterSpawner
EaterSpawnerUpdate(self, ents, removed) ==
    LET counted == IF Len(get_eater_entities(ents, removed)) = 0
                   THEN self.ticks_without_eater + 1
                   ELSE self.ticks_without_eater
    IN  IF self.ticks_without_eater > SPAWN_AFTER_X_TICKS
        THEN {Outcome(EaterSpawnerNew(0),
                      IF get_entity_at(ents, removed, spawn_position) = 0
                      THEN <<EaterNew(spawn_position)>> ELSE <<>>,
                      0) : spawn_position \in RandomCells}
        ELSE {Outcome(EaterSpawnerNew(counted), <<>>, 0)}

\* --------------------------------------------------------------------- Food
FoodUpdate(self, ents, removed) == {Outcome(self, <<>>, 0)}

\* --------------------------------------------------------- World::update
\* Vec::sort, then Vec::reverse.
RECURSIVE SortAscending(_)
SortAscending(seq) ==
    IF seq = <<>> THEN <<>>
    ELSE LET least == Min({seq[k] : k \in 1..Len(seq)})
             at == Min({k \in 1..Len(seq) : seq[k] = least})
         IN  <<least>> \o SortAscending(SubSeq(seq, 1, at - 1) \o SubSeq(seq, at + 1, Len(seq)))

Reverse(seq) == [k \in 1..Len(seq) |-> seq[Len(seq) + 1 - k]]

RemovalOrder(removed) == Reverse(SortAscending(removed))

\* Vec::swap_remove on an index inside the vector: the last element takes
\* the place of the removed one.
swap_remove(v, idx) == SubSeq([v EXCEPT ![idx] = v[Len(v)]], 1, Len(v) - 1)

\* The removal loop over the ordered indices; swap_remove panics on an index
\* outside the vector, and the loop stops there.
RECURSIVE ApplyRemovals(_, _)
ApplyRemovals(v, order) ==
    IF order = <<>> THEN [panic |-> FALSE, entities |-> v]
    ELSE IF Head(order) > Len(v) THEN [panic |-> TRUE, entities |-> v]
    ELSE ApplyRemovals(swap_remove(v, Head(order)), Tail(order))

\* update() is entered: the loop starts at the first index.
BeginUpdate ==
    /\ pc' = "updating"
    /\ i' = 1
    /\ spawned_entities' = <<>>
    /\ tick_start' = entities
    /\ ticks' = ticks + 1

InLoop == pc = "updating" /\ i <= Len(entities)

\* ApplyOutcome with the removal applied at once instead of queued.
ApplyOutcomeEager(out) ==
    IF out.panic
    THEN /\ pc' = "panicked"
         /\ UNCHANGED <<entities, removed_entity_indices, spawned_entities, i>>
    ELSE /\ entities' =
                IF out.removed # 0
                THEN swap_remove([entities EXCEPT ![i] = out.entity], out.removed)
                ELSE [entities EXCEPT ![i] = out.entity]
         /\ spawned_entities' = spawned_entities \o out.spawned
         /\ removed_entity_indices' = removed_entity_indices
         /\ i' = i + 1
         /\ pc' = pc

\* ApplyOutcome with the spawned entity pushed straight into the collection.
ApplyOutcomePushed(out) ==
    IF out.panic
    THEN /\ pc' = "panicked"
         /\ UNCHANGED <<entities, removed_entity_indices, spawned_entities, i>>
    ELSE /\ entities' = [entities EXCEPT ![i] = out.entity] \o out.spawned
         /\ spawned_entities' = spawned_entities
         /\ removed_entity_indices' =
                IF out.removed # 0
                THEN Append(removed_entity_indices, out.removed)
                ELSE removed_entity_indices
         /\ i' = i + 1
         /\ pc' = pc

\* The loop body after self.entities[i].update(..) gave `out`.
ApplyOutcome(out) ==
    IF out.panic
    THEN /\ pc' = "panicked"
         /\ UNCHANGED <<entities, removed_entity_indices, spawned_entities, i>>
    ELSE /\ entities' = [entities EXCEPT ![i] = out.entity]
         /\ spawned_entities' = spawned_entities \o out.spawned
         /\ removed_entity_indices' =
                IF out.removed # 0
                THEN Append(removed_entity_indices, out.removed)
                ELSE removed_entity_indices
         /\ i' = i + 1
         /\ pc' = pc

\* No pathfinder call of its own is in progress beside the World.
NoSearch ==
    /\ call = NoCall
    /\ to_see = {}
    /\ parents = <<>>
    /\ returned = NotReturned

\* No thread of lib.rs runs beside the World.
NoThreads ==
    /\ writer = "none"
    /\ readers = {}
    /\ thread_at = <<>>
    /\ msg = "none"
    /\ tick_rate = TICK_RATE_MS
    /\ generators_used = {}

\* What a step of the World leaves alone outside the World.
Alone == UNCHANGED <<search, threads>>

LoopFrame ==
    /\ UNCHANGED <<active, manual_update_requested, tick_start, ticks, last_call>>
    /\ Alone

\* An index already queued for removal is passed over.
UpdateSkipRemoved ==
    /\ InLoop
    /\ IsRemoved(removed_entity_indices, i)
    /\ i' = i + 1
    /\ UNCHANGED <<entities, removed_entity_indices, spawned_entities, pc>>
    /\ LoopFrame

Evaluated(kind) ==
    /\ InLoop
    /\ ~IsRemoved(removed_entity_indices, i)
    /\ entities[i].kind = kind

UpdateFood ==
    /\ Evaluated("food")
    /\ \E out \in FoodUpdate(entities[i], entities, removed_entity_indices) :
            ApplyOutcome(out)
    /\ LoopFrame

UpdateFoodSpawner ==
    /\ Evaluated("food_spawner")
    /\ \E out \in FoodSpawnerUpdate(entities[i], entities, removed_entity_indices) :
            ApplyOutcome(out)
    /\ LoopFrame

UpdateEaterSpawner ==
    /\ Evaluated("eater_spawner")
    /\ \E out \in EaterSpawnerUpdate(entities[i], entities, removed_entity_indices) :
            ApplyOutcome(out)
    /\ LoopFrame

UpdateEater ==
    /\ Evaluated("eater")
    /\ \E out \in EaterUpdate(entities[i], entities, removed_entity_indices) :
            ApplyOutcome(out)
    /\ LoopFrame

\* Purge without the clear() of the pending list.
PurgeUncleared(ents, removed, spawned) ==
    LET order == RemovalOrder(removed)
        purged == ApplyRemovals(ents, order)
    IN  [panic |-> purged.panic,
         entities |-> IF purged.panic THEN purged.entities ELSE purged.entities \o spawned,
         removed |-> order]

\* What update() leaves after its loop: the removals applied in order, the
\* pending list cleared, the spawned entities appended.
Purge(ents, removed, spawned) ==
    LET order == RemovalOrder(removed)
        purged == ApplyRemovals(ents, order)
    IN  IF purged.panic
        THEN [panic |-> TRUE, entities |-> purged.entities, removed |-> order]
        ELSE [panic |-> FALSE, entities |-> purged.entities \o spawned, removed |-> <<>>]

UpdateFinish ==
    /\ pc = "updating"
    /\ i > Len(entities)
    /\ LET done == Purge(entities, removed_entity_indices, spawned_entities)
       IN  /\ entities' = done.entities
           /\ removed_entity_indices' = done.removed
           /\ pc' = IF done.panic THEN "panicked" ELSE "idle"
    /\ i' = 0
    /\ spawned_entities' = <<>>
    /\ tick_start' = <<>>
    /\ UNCHANGED <<active, manual_update_requested, ticks, last_call>>
    /\ Alone

\* ------------------------------------------------------- World operations
CanTick == pc = "idle" /\ ticks < MaxTicks

\* World::update is entered.
update ==
    /\ CanTick
    /\ BeginUpdate
    /\ last_call' = "update"
    /\ UNCHANGED world

\* World::update called by the owner of the World (tests, examples).
Update == update /\ Alone

\* update_if_active taken for update(): it runs whatever the flags are.
RunsUpdateAlways(is_active, requested) == TRUE
\* update_if_active leaving the request set.
FlagAfterKept(is_active, requested) == requested

\* update_if_active clearing the request whenever it runs update().
FlagAfterSpent(is_active, requested) == FALSE

\* Whether update_if_active runs update(), and the flag it leaves.
RunsUpdate(is_active, requested) == is_active \/ requested
FlagAfter(is_active, requested) == IF is_active THEN requested ELSE FALSE

update_if_active ==
    /\ pc = "idle"
    /\ last_call' = "update_if_active"
    /\ IF RunsUpdate(active, manual_update_requested)
       THEN /\ ticks < MaxTicks
            /\ BeginUpdate
            /\ manual_update_requested' = FlagAfter(active, manual_update_requested)
            /\ UNCHANGED <<entities, removed_entity_indices, active>>
       ELSE UNCHANGED <<world, pc, i, spawned_entities, tick_start, ticks>>

UpdateIfActive == update_if_active /\ Alone

RequestManualUpdate ==
    /\ pc = "idle"
    /\ manual_update_requested' = TRUE
    /\ last_call' = "request_manual_update"
    /\ UNCHANGED <<entities, removed_entity_indices, active, pc, i,
                   spawned_entities, tick_start, ticks>>
    /\ Alone

pause ==
    /\ pc = "idle"
    /\ active' = FALSE
    /\ last_call' = "pause"
    /\ UNCHANGED <<entities, removed_entity_indices, manual_update_requested, pc, i,
                   spawned_entities, tick_start, ticks>>

Pause == pause /\ Alone

unpause ==
    /\ pc = "idle"
    /\ active' = TRUE
    /\ last_call' = "unpause"
    /\ UNCHANGED <<entities, removed_entity_indices, manual_update_requested, pc, i,
                   spawned_entities, tick_start, ticks>>

Unpause == unpause /\ Alone

\* ------------------------------------------------------------------- Init
\* (hunger, age, last_reproduced) of the Eaters a behaviour starts with; each
\* is a state an Eater reaches by ageing from Eater::new.
EaterProfiles ==
    {<<19, 30, 30>>, <<19, 41, 41>>, <<51, 60, 60>>, <<99, 150, 150>>, <<30, 1000, 45>>}

\* An Eater about to pass the age limit, sated and not due to reproduce.
OldEater(p) == EaterWith(p, 10, DieAge, 30)

\* Worlds of later ticks, whose order in the collection comes from the pushes
\* at the end of earlier passes: a Food pushed before the Eater next to it, and
\* two Eaters of the same age followed by a Food.
LaterWorlds ==
    {<<FoodSpawnerNew(0, SpawnEveryXTicks), EaterSpawnerNew(0),
       FoodNew([x |-> 1, y |-> 1]), OldEater([x |-> 0, y |-> 1])>>,
     <<FoodSpawnerNew(0, SpawnEveryXTicks), EaterSpawnerNew(0),
       OldEater([x |-> 0, y |-> 1]), OldEater([x |-> 1, y |-> 0]),
       FoodNew([x |-> 1, y |-> 1])>>}

\* World::default() on the small grid: a FoodSpawner, an EaterSpawner, one
\* Eater and one Food on distinct cells; or the same World after its Eaters
\* died, the EaterSpawner about to act; or the World of test_food_spawner, a
\* World::new holding one FoodSpawner about to spawn.
InitialWorlds ==
    {<<FoodSpawnerNew(ls, SpawnEveryXTicks), EaterSpawnerNew(0),
       EaterWith(p, prof[1], prof[2], prof[3]), FoodNew(f)>> :
        ls \in {SpawnEveryXTicks - 1},
        p \in Cells, f \in Cells \ {Origin}, prof \in EaterProfiles}
    \cup
    {<<FoodSpawnerNew(ls, SpawnEveryXTicks), EaterSpawnerNew(t), FoodNew(f)>> :
        ls \in {SpawnEveryXTicks - 2, SpawnEveryXTicks - 1},
        t \in {SPAWN_AFTER_X_TICKS, SPAWN_AFTER_X_TICKS + 1},
        f \in Cells \ {Origin}}
    \cup
    {<<FoodSpawnerNew(SpawnEveryXTicks - 1, SpawnEveryXTicks)>>}
    \cup
    LaterWorlds

NoSharedCell(ents) ==
    \A a, b \in 1..Len(ents) :
        (a # b /\ ents[a].kind \in {"food", "eater"} /\ ents[b].kind \in {"food", "eater"})
            => ents[a].position # ents[b].position

InitRest ==
    /\ removed_entity_indices = <<>>
    /\ active = TRUE
    /\ manual_update_requested = FALSE
    /\ pc = "idle"
    /\ i = 0
    /\ spawned_entities = <<>>
    /\ tick_start = <<>>
    /\ ticks = 0
    /\ last_call = "none"

Init ==
    /\ entities \in {w \in InitialWorlds : NoSharedCell(w)}
    /\ InitRest
    /\ NoSearch
    /\ NoThreads

\* The World driven by update() alone.
Next ==
    \/ Update
    \/ UpdateSkipRemoved
    \/ UpdateFood
    \/ UpdateFoodSpawner
    \/ UpdateEaterSpawner
    \/ UpdateEater
    \/ UpdateFinish

Spec == Init /\ [][Next]_vars

\* The World under its controls: update_if_active, pause, unpause and the
\* manual-update request, from World::default() on the small grid with its
\* Eater grown hungry.
InitControl ==
    /\ entities \in {<<FoodSpawnerNew(0, SpawnEveryXTicks), EaterSpawnerNew(0),
                       EaterWith(p, 51, 60, 60), FoodNew(f)>> :
                        p \in Cells, f \in Cells \ {Origin}}
    /\ NoSharedCell(entities)
    /\ InitRest
    /\ NoSearch
    /\ NoThreads

NextControl ==
    \/ Update
    \/ UpdateIfActive
    \/ RequestManualUpdate
    \/ Pause
    \/ Unpause
    \/ UpdateSkipRemoved
    \/ UpdateFood
    \/ UpdateFoodSpawner
    \/ UpdateEaterSpawner
    \/ UpdateEater
    \/ UpdateFinish

SpecControl == InitControl /\ [][NextControl]_vars

\* a_star_pathfind called on its own, as the tests of garden_pathfinding.rs
\* do: a World::new(width, height), a start, a goal and an ignore list as
\* GetFood's re-planning builds it before a call: steps returned by earlier
\* calls from the same start, fewer than the loop has turns.
CellsOf(width, height) ==
    {Position(x, y) : x \in 0..(width - 1), y \in 0..(height - 1)}

IgnoreLists(width, height, cur_pos) ==
    {ign \in SUBSET successors(width, height, cur_pos, {}) :
        Cardinality(ign) < PathRetries}

CallsOn(width, height) ==
    UNION {
        {[width |-> width, height |-> height, cur_pos |-> cur_pos, goal |-> goal,
          ignored_position |-> ign] :
            goal \in CellsOf(width, height),
            ign \in IgnoreLists(width, height, cur_pos)}
        : cur_pos \in CellsOf(width, height)}

PathCalls ==
    UNION {CallsOn(width, height) : width \in 1..PathWidth, height \in 1..PathHeight}

InitPath ==
    /\ entities = <<>>
    /\ InitRest
    /\ call \in PathCalls
    /\ to_see = {[estimated_cost |-> 0, cost |-> 0, node |-> call.cur_pos]}
    /\ parents = [q \in {call.cur_pos} |-> [parent |-> call.cur_pos, cost |-> 0]]
    /\ returned = NotReturned
    /\ NoThreads

NextPath ==
    \/ AStarPop
    \/ AStarNone

SpecPath == InitPath /\ [][NextPath]_vars

\* ------------------------------------------------------- the GetFood branch
\* Eater::update of one hungry Eater in a World wide enough for it to have
\* four neighbours: the World in the middle of a pass, both spawners already
\* updated, the Eater's turn next. Besides the Eater and a Food at least two
\* cells away the World holds new-born Eaters on some of the cells next to it.
PlanCells == CellsOf(PlanWidth, PlanHeight)
HungryEater == EaterWith(Position(1, 1), 51, 60, 60)

Blockers(chosen) ==
    LET at(k) == Position(HungryEater.position.x + NEIGHBOR_DIRECTIONS[k].x,
                          HungryEater.position.y + NEIGHBOR_DIRECTIONS[k].y)
        Chosen(k) == k \in chosen
        picked == SelectSeq([k \in 1..Len(NEIGHBOR_DIRECTIONS) |-> k], Chosen)
    IN  [n \in 1..Len(picked) |-> EaterNew(at(picked[n]))]

PlanWorlds ==
    {<<FoodSpawnerNew(1, SpawnEveryXTicks), EaterSpawnerNew(0), HungryEater, FoodNew(f)>>
        \o Blockers(chosen) :
        f \in {c \in PlanCells \ {Origin} : Distance(c, HungryEater.position) >= 2},
        chosen \in SUBSET (1..Len(NEIGHBOR_DIRECTIONS))}

InitGetFood ==
    /\ entities \in PlanWorlds
    /\ removed_entity_indices = <<>>
    /\ active = TRUE
    /\ manual_update_requested = FALSE
    /\ pc = "updating"
    /\ i = 3
    /\ spawned_entities = <<>>
    /\ tick_start = [entities EXCEPT ![1] = FoodSpawnerNew(0, SpawnEveryXTicks)]
    /\ ticks = 1
    /\ last_call = "update"
    /\ NoSearch
    /\ NoThreads

\* The Eater's turn in the pass: Eater::update with goal GetFood.
UpdateEaterGetFood ==
    /\ Evaluated("eater")
    /\ LET self == entities[i]
           goal == select_goal(self, entities, removed_entity_indices)
       IN  /\ goal.goal = "GetFood"
           /\ \E d \in increment_desire(self.hunger, 1) :
                /\ ~d.panic
                /\ \E out \in GetFoodOutcomes(
                                self,
                                [self EXCEPT !.hunger = d.level,
                                             !.age = self.age + 1,
                                             !.last_reproduced = self.last_reproduced + 1],
                                goal,
                                GetFoodLoopIn(PlanWidth, PlanHeight, self, entities,
                                              removed_entity_indices,
                                              get_position(entities[goal.idx]), 1, {})) :
                        ApplyOutcome(out)
    /\ LoopFrame

NextGetFood == UpdateEaterGetFood

SpecGetFood == InitGetFood /\ [][NextGetFood]_vars

\* ------------------------------------------------------- a starving Eater
\* A World put together with World::new and add_entity, as the tests do: one
\* new Eater between FoodSpawners whose interval is longer than the run, and
\* no Food. The run is long enough for an i8 hunger starting at 0 to pass
\* its largest value.
StarveTicks == I8Max + 1
IdleSpawner == FoodSpawnerNew(0, StarveTicks + StarveTicks)
\* The ticks a dying Eater has to outlast for its hunger to rise from the
\* first value above DieHunger to I8Max.
Spares == I8Max - DieHunger - 1

StarvingWorlds ==
    {<<IdleSpawner, EaterNew(p)>> \o [k \in 1..Spares |-> IdleSpawner] : p \in Cells}

InitStarve ==
    /\ entities \in StarvingWorlds
    /\ InitRest
    /\ NoSearch
    /\ NoThreads

\* World::update called again and again by the owner of the World.
UpdateStarving ==
    /\ pc = "idle"
    /\ ticks < StarveTicks
    /\ BeginUpdate
    /\ last_call' = "update"
    /\ UNCHANGED world
    /\ Alone

NextStarve ==
    \/ UpdateStarving
    \/ UpdateFoodSpawner
    \/ UpdateEater
    \/ UpdateFinish

SpecStarve == InitStarve /\ [][NextStarve]_vars

\* ----------------------------------------------------------- lib.rs threads
\* run(): the tick thread, and two workers of the thread pool serving a
\* websocket connection and /world_status requests, all sharing one
\* Arc<RwLock<ConfiguredWorld>>.
TickThread == "tick"
WebsocketHandler == "websocket"
StatusHandler == "world_status"
Handlers == {WebsocketHandler, StatusHandler}

\* The text messages handle_ws_text_msg acts on.
Messages == {"pause", "unpause", "update", "tick_rate"}
\* The values a tick-rate message may carry.
TickRates == {TICK_RATE_MS, TICK_RATE_MS + TICK_RATE_MS}

\* The two Pcg32 instances run() creates from the same seed: the field of
\* ConfiguredWorld and the local of the tick thread.
ConfiguredRandomizer == "configured_world.randomizer"
ThreadRandomizer == "tick thread randomizer"

\* A lock that lets a writer in beside its holders.
CanWriteAlways == TRUE
\* A lock that lets a reader in beside a writer.
CanReadAlways == TRUE

\* RwLock::write returns once nobody holds the lock; RwLock::read once no
\* writer holds it.
CanWrite == writer = "none" /\ readers = {}
CanRead == writer = "none"

Moves(thread, place) == thread_at' = [thread_at EXCEPT ![thread] = place]

WorldUntouched ==
    UNCHANGED <<world, pc, i, spawned_entities, tick_start, ticks, last_call, search>>

\* let mut w = primary_world_instance.write().unwrap();
TickLockWrite ==
    /\ thread_at[TickThread] = "start"
    /\ CanWrite
    /\ writer' = TickThread
    /\ Moves(TickThread, "locked")
    /\ UNCHANGED <<readers, msg, tick_rate, generators_used>>
    /\ WorldUntouched

\* w.world.update_if_active(&mut randomizer), with the thread's own generator.
TickUpdateIfActive ==
    /\ thread_at[TickThread] = "locked"
    /\ update_if_active
    /\ generators_used' =
            IF RunsUpdate(active, manual_update_requested)
            THEN generators_used \cup {ThreadRandomizer}
            ELSE generators_used
    /\ Moves(TickThread, "ticking")
    /\ UNCHANGED <<writer, readers, msg, tick_rate, search>>

\* The end of the scope of the write guard, update_if_active having returned.
TickUnlock ==
    /\ thread_at[TickThread] = "ticking"
    /\ pc = "idle"
    /\ writer' = "none"
    /\ Moves(TickThread, "frame")
    /\ UNCHANGED <<readers, msg, tick_rate, generators_used>>
    /\ WorldUntouched

\* let w = primary_world_instance.read().unwrap(); .. thread::sleep(..): the
\* thread goes to sleep inside the scope of the read guard.
TickLockRead ==
    /\ thread_at[TickThread] = "frame"
    /\ CanRead
    /\ readers' = readers \cup {TickThread}
    /\ Moves(TickThread, "sleeping")
    /\ UNCHANGED <<writer, msg, tick_rate, generators_used>>
    /\ WorldUntouched

\* The sleep is over and the scope of the read guard ends.
TickWake ==
    /\ thread_at[TickThread] = "sleeping"
    /\ readers' = readers \ {TickThread}
    /\ Moves(TickThread, "start")
    /\ UNCHANGED <<writer, msg, tick_rate, generators_used>>
    /\ WorldUntouched

\* websocket.read_message(): a text message, or nothing to read (WouldBlock).
WsReadMessage ==
    /\ thread_at[WebsocketHandler] = "loop"
    /\ \/ /\ Moves(WebsocketHandler, "want_read")
          /\ UNCHANGED msg
       \/ \E m \in Messages :
            /\ msg' = m
            /\ Moves(WebsocketHandler, "want_write")
    /\ UNCHANGED <<writer, readers, tick_rate, generators_used>>
    /\ WorldUntouched

\* world_ref.write().unwrap() in each arm of handle_ws_text_msg.
WsLockWrite ==
    /\ thread_at[WebsocketHandler] = "want_write"
    /\ CanWrite
    /\ writer' = WebsocketHandler
    /\ Moves(WebsocketHandler, "control")
    /\ UNCHANGED <<readers, msg, tick_rate, generators_used>>
    /\ WorldUntouched

Controls(m) == thread_at[WebsocketHandler] = "control" /\ msg = m

WsPause ==
    /\ Controls("pause")
    /\ pause
    /\ Moves(WebsocketHandler, "controlled")
    /\ UNCHANGED <<writer, readers, msg, tick_rate, generators_used, search>>

WsUnpause ==
    /\ Controls("unpause")
    /\ unpause
    /\ Moves(WebsocketHandler, "controlled")
    /\ UNCHANGED <<writer, readers, msg, tick_rate, generators_used, search>>

\* w.world.update(&mut w.randomizer)
WsUpdate ==
    /\ Controls("update")
    /\ update
    /\ generators_used' = generators_used \cup {ConfiguredRandomizer}
    /\ Moves(WebsocketHandler, "controlled")
    /\ UNCHANGED <<writer, readers, msg, tick_rate, search>>

\* w.tick_rate = new_tick_rate as u64
WsTickRate ==
    /\ Controls("tick_rate")
    /\ \E new_tick_rate \in TickRates : tick_rate' = new_tick_rate
    /\ Moves(WebsocketHandler, "controlled")
    /\ UNCHANGED <<writer, readers, msg, generators_used>>
    /\ WorldUntouched

\* The arm of handle_ws_text_msg ends and with it the write guard.
WsUnlock ==
    /\ thread_at[WebsocketHandler] = "controlled"
    /\ pc = "idle"
    /\ writer' = "none"
    /\ Moves(WebsocketHandler, "want_read")
    /\ UNCHANGED <<readers, msg, tick_rate, generators_used>>
    /\ WorldUntouched

\* world_ref.read().unwrap() before w.world.render()
HandlerLockRead(handler) ==
    /\ thread_at[handler] = "want_read"
    /\ CanRead
    /\ readers' = readers \cup {handler}
    /\ Moves(handler, "rendering")
    /\ UNCHANGED <<writer, msg, tick_rate, generators_used>>
    /\ WorldUntouched

\* w.world.render() is done and the read guard dropped: the websocket
\* handler goes round its loop, the pool worker takes the next request.
HandlerRendered(handler) ==
    /\ thread_at[handler] = "rendering"
    /\ readers' = readers \ {handler}
    /\ Moves(handler, IF handler = WebsocketHandler THEN "loop" ELSE "want_read")
    /\ UNCHANGED <<writer, msg, tick_rate, generators_used>>
    /\ WorldUntouched

WsLockRead == HandlerLockRead(WebsocketHandler)
WsRendered == HandlerRendered(WebsocketHandler)
StatusLockRead == HandlerLockRead(StatusHandler)
StatusRendered == HandlerRendered(StatusHandler)

\* run(): World::default() on the small grid with its Eater grown hungry,
\* the lock free, tick_rate = TICK_RATE_MS.
InitThreads ==
    /\ entities = <<FoodSpawnerNew(0, SpawnEveryXTicks), EaterSpawnerNew(0),
                    EaterWith(Position(Width - 1, 0), 51, 60, 60),
                    FoodNew(Position(0, Height - 1))>>
    /\ InitRest
    /\ NoSearch
    /\ writer = "none"
    /\ readers = {}
    /\ thread_at = [t \in {TickThread} \cup Handlers |->
                        IF t = TickThread THEN "start"
                        ELSE IF t = WebsocketHandler THEN "loop" ELSE "want_read"]
    /\ msg = "none"
    /\ tick_rate = TICK_RATE_MS
    /\ generators_used = {}

NextThreads ==
    \/ TickLockWrite
    \/ TickUpdateIfActive
    \/ TickUnlock
    \/ TickLockRead
    \/ TickWake
    \/ WsReadMessage
    \/ WsLockWrite
    \/ WsPause
    \/ WsUnpause
    \/ WsUpdate
    \/ WsTickRate
    \/ WsUnlock
    \/ WsLockRead
    \/ WsRendered
    \/ StatusLockRead
    \/ StatusRendered
    \/ UpdateSkipRemoved
    \/ UpdateFood
    \/ UpdateFoodSpawner
    \/ UpdateEaterSpawner
    \/ UpdateEater
    \/ UpdateFinish

SpecThreads == InitThreads /\ [][NextThreads]_vars

\* ================================================================= claims
Max(S) == CHOOSE m \in S : \A n \in S : m >= n

\* Whether index idx is in the pending-removal list.
Queued(idx) == idx \in {removed_entity_indices[k] : k \in 1..Len(removed_entity_indices)}

\* The entity at the loop index is about to have its transition invoked.
Invoking == InLoop /\ ~Queued(i)

C2_NoSharedCell == pc = "idle" => NoSharedCell(entities)

\* ---- C3
\* C3: an Eater whose goal is Die marks its own index for removal.
C3_DieMarksSelf ==
    [][(/\ Invoking
        /\ entities[i].kind = "eater"
        /\ select_goal(entities[i], entities, removed_entity_indices).goal = "Die"
        /\ pc' = "updating")
            => removed_entity_indices' = Append(removed_entity_indices, i)]_vars

\* ---- C4
\* C4: update_if_active called while paused with no request pending changes
\* nothing of the World and starts no pass; called while active it starts
\* one pass of update(), leaving the flags alone, and a pass in progress
\* starts no further pass.
C4_UpdateIfActive ==
    [][/\ (last_call' = "update_if_active" /\ pc = "idle"
                /\ ~active /\ ~manual_update_requested)
            => UNCHANGED <<entities, removed_entity_indices, active,
                           manual_update_requested, pc, ticks>>
       /\ (last_call' = "update_if_active" /\ pc = "idle" /\ active)
            => /\ pc' = "updating"
               /\ ticks' = ticks + 1
               /\ UNCHANGED <<entities, removed_entity_indices, active,
                              manual_update_requested>>
       /\ pc = "updating" => ticks' = ticks]_vars

\* update_if_active has been called on a paused World with no request
\* pending, before any pass ran.
C4_Witness ==
    /\ last_call = "update_if_active"
    /\ pc = "idle"
    /\ ~active
    /\ ~manual_update_requested
    /\ ticks = 0

\* ---- C5
\* C5: while paused, update_if_active starts a pass exactly when a request
\* is pending and clears the request in the same step; with none pending it
\* starts nothing. Only request_manual_update sets the request, and setting
\* it again leaves it one request.
C5_ManualOneShot ==
    [][/\ (last_call' = "update_if_active" /\ pc = "idle" /\ ~active)
            => IF manual_update_requested
               THEN pc' = "updating" /\ ticks' = ticks + 1 /\ ~manual_update_requested'
               ELSE pc' = "idle" /\ ticks' = ticks /\ ~manual_update_requested'
       /\ (~manual_update_requested /\ manual_update_requested')
            => last_call' = "request_manual_update"
       /\ (last_call' = "request_manual_update" /\ pc = "idle")
            => manual_update_requested' = TRUE /\ ticks' = ticks /\ pc' = "idle"]_vars

\* A pass started by update_if_active on a paused World, the request spent.
C5_Witness ==
    /\ pc = "updating"
    /\ last_call = "update_if_active"
    /\ ~active
    /\ ~manual_update_requested

\* ---- C6
\* The collection after the pending indices are applied highest index first
\* by swap-remove.
RECURSIVE HighestFirst(_, _)
HighestFirst(v, pending) ==
    IF pending = <<>> THEN v
    ELSE LET top == Max({pending[k] : k \in 1..Len(pending)})
             at == CHOOSE k \in 1..Len(pending) : pending[k] = top
         IN  HighestFirst([j \in 1..(Len(v) - 1) |-> IF j = top THEN v[Len(v)] ELSE v[j]],
                          [k \in 1..(Len(pending) - 1) |->
                                IF k < at THEN pending[k] ELSE pending[k + 1]])

\* C6: while the pass runs no entity leaves the collection (each index keeps
\* its entity's kind, marked ones included); when update() returns the
\* pending list is empty; and the collection it leaves is the one before the
\* purge with the marked indices swap-removed highest first, followed by the
\* spawned entities.
C6_DeferredPurge ==
    [][/\ (pc = "updating" /\ pc' = "updating")
            => /\ Len(entities') = Len(entities)
               /\ \A j \in 1..Len(entities) : entities'[j].kind = entities[j].kind
       /\ pc' = "idle" => removed_entity_indices' = <<>>
       /\ (pc = "updating" /\ pc' = "idle")
            => entities' = HighestFirst(entities, removed_entity_indices)
                                \o spawned_entities]_vars

\* The loop is over with a removal and a spawn both pending, every entity of
\* the tick still in the collection.
C6_Witness ==
    /\ pc = "updating"
    /\ i > Len(entities)
    /\ removed_entity_indices # <<>>
    /\ spawned_entities # <<>>
    /\ Len(entities) = Len(tick_start)

\* ---- C7
\* C7: during a pass the collection holds the entities of the tick start and
\* no others, the spawned ones waiting in the side list, which only grows at
\* its end; the loop index never passes the tick-start length by more than
\* the final step; and when update() returns the spawned entities are the
\* tail of the collection, as spawned.
C7_SpawnedAtTickEnd ==
    [][/\ pc = "updating"
            => /\ Len(entities) = Len(tick_start)
               /\ i <= Len(tick_start) + 1
       /\ (pc = "updating" /\ pc' = "updating")
            => /\ Len(entities') = Len(tick_start)
               /\ Len(spawned_entities') >= Len(spawned_entities)
               /\ SubSeq(spawned_entities', 1, Len(spawned_entities)) = spawned_entities
       /\ (pc = "updating" /\ pc' = "idle")
            => /\ Len(entities') >= Len(spawned_entities)
               /\ SubSeq(entities', Len(entities') - Len(spawned_entities) + 1,
                         Len(entities')) = spawned_entities]_vars

\* An Eater's transition is invoked while a Food spawned earlier in the pass
\* waits in the side list, on a cell get_entity_at reports empty.
C7_Witness ==
    /\ Invoking
    /\ entities[i].kind = "eater"
    /\ spawned_entities # <<>>
    /\ get_entity_at(entities, removed_entity_indices, spawned_entities[1].position) = 0

\* ---- C8
\* C8: a step of the pass at an index queued for removal leaves the
\* collection, the side list and the pending list as they are and moves to
\* the next index; and throughout a pass get_entity_at, get_food_entities
\* and get_eater_entities report no queued index.
C8_QueuedSkipped ==
    [][pc = "updating" =>
        /\ (InLoop /\ Queued(i))
            => /\ entities' = entities
               /\ spawned_entities' = spawned_entities
               /\ removed_entity_indices' = removed_entity_indices
               /\ i' = i + 1
        /\ \A p \in Cells :
                ~Queued(get_entity_at(entities, removed_entity_indices, p))
        /\ \A k \in 1..Len(entities) :
                Queued(k) =>
                    /\ \A n \in DOMAIN get_food_entities(entities, removed_entity_indices) :
                            get_food_entities(entities, removed_entity_indices)[n] # k
                    /\ \A n \in DOMAIN get_eater_entities(entities, removed_entity_indices) :
                            get_eater_entities(entities, removed_entity_indices)[n] # k]_vars

\* The loop stands at a Food that an Eater earlier in the pass queued.
C8_Witness ==
    /\ InLoop
    /\ Queued(i)
    /\ entities[i].kind = "food"
    /\ \E j \in 1..(i - 1) : entities[j].kind = "eater"

\* ---- C9
\* C9: at every tick boundary each Eater's hunger is between 0 and 99.
C9_HungerInRange ==
    pc = "idle" =>
        \A j \in 1..Len(entities) :
            entities[j].kind = "eater" => (0 <= entities[j].hunger /\ entities[j].hunger <= 99)

\* ---- C10
\* The goal the claim gives for an Eater in a World.
ClaimedGoal(self, ents) ==
    LET visible == {k \in 1..Len(ents) : ents[k].kind = "food" /\ ~Queued(k)}
        D(k) == Abs(ents[k].position.x - self.position.x)
                + Abs(ents[k].position.y - self.position.y)
    IN  IF self.hunger > 99 \/ self.age > 1000 THEN Goal("Die", 0)
        ELSE IF self.hunger < 20 /\ self.age > 40 /\ self.last_reproduced > 40
        THEN Goal("Reproduce", 0)
        ELSE IF self.hunger < 20 \/ visible = {} THEN Goal("Wander", 0)
        ELSE Goal("GetFood",
                  CHOOSE k \in visible :
                      \A m \in visible : D(k) < D(m) \/ (D(k) = D(m) /\ k <= m))

\* C10: for every Eater of every World reached, select_goal gives Die,
\* Reproduce, Wander or GetFood(nearest visible Food, lowest index on ties)
\* by the stated priority; hunger 0 with a Food visible gives Wander and
\* hunger 51 with one Food visible gives GetFood of that Food.
C10_SelectGoal ==
    \A j \in 1..Len(entities) :
        entities[j].kind = "eater" =>
            LET self == entities[j]
                goal == select_goal(self, entities, removed_entity_indices)
                foods == get_food_entities(entities, removed_entity_indices)
            IN  /\ goal = ClaimedGoal(self, entities)
                /\ (self.hunger = 0 /\ self.age <= 1000 /\ Len(foods) > 0)
                        => goal.goal = "Wander"
                /\ (self.hunger = 51 /\ self.age <= 1000 /\ Len(foods) = 1)
                        => goal = Goal("GetFood", foods[1])

\* A hungry Eater sees two Foods at the same, least distance.
C10_Witness ==
    \E j \in 1..Len(entities) :
        /\ entities[j].kind = "eater"
        /\ select_goal(entities[j], entities, removed_entity_indices).goal = "GetFood"
        /\ \E a, b \in 1..Len(entities) :
                /\ a < b
                /\ entities[a].kind = "food" /\ entities[b].kind = "food"
                /\ ~Queued(a) /\ ~Queued(b)
                /\ Distance(entities[a].position, entities[j].position)
                        = Distance(entities[b].position, entities[j].position)
                /\ select_goal(entities[j], entities, removed_entity_indices).idx = a

\* ---- C11
\* What the stepped call gave, as a result of the summary a_star_pathfind.
Given == [found |-> returned.found, cost |-> returned.cost, step |-> returned.step]

\* The call in progress is on the grid of the World model.
OnWorldGrid == call.width = Width /\ call.height = Height

\* C11: on every grid and for every cell p of it, a_star_pathfind(p, p, [])
\* returns cost 1 and position p; with that result the GetFood loop of an
\* Eater standing on its target Food's cell ends in the Food being eaten.
C11_StartIsGoalSentinel ==
    (returned.done /\ call.cur_pos = call.goal /\ call.ignored_position = {}) =>
        /\ returned.found
        /\ returned.cost = 1
        /\ returned.step = call.cur_pos
        /\ OnWorldGrid =>
            /\ a_star_pathfind(call.cur_pos, call.goal, {}) = {Given}
            /\ \A out \in GetFoodLoop(EaterNew(call.cur_pos),
                                      <<EaterNew(call.cur_pos), FoodNew(call.goal)>>,
                                      <<>>, call.goal, 1, {}) :
                    out.eaten /\ ~out.panic /\ out.position = call.cur_pos

C11_Witness ==
    /\ returned.done
    /\ call.cur_pos = call.goal
    /\ call.cur_pos # Origin
    /\ call.ignored_position = {}
    /\ OnWorldGrid
    /\ returned.cost = 1

\* ---- C12
\* C12: for start # goal, a step a_star_pathfind returns is a cardinal
\* neighbour of the start, inside the grid, and not an ignored position; from
\* (0,0) to (1,1) on the 2x2 grid with (1,0) ignored it is (0,1).
C12_StepIsFreeNeighbour ==
    (returned.done /\ returned.found /\ call.cur_pos # call.goal) =>
        /\ Abs(returned.step.x - call.cur_pos.x) + Abs(returned.step.y - call.cur_pos.y) = 1
        /\ returned.step.x \in 0..(call.width - 1)
        /\ returned.step.y \in 0..(call.height - 1)
        /\ returned.step \notin call.ignored_position
        /\ (/\ call.width = 2 /\ call.height = 2
            /\ call.cur_pos = Position(0, 0) /\ call.goal = Position(1, 1)
            /\ call.ignored_position = {Position(1, 0)})
                => returned.step = Position(0, 1)

C12_Witness ==
    /\ returned.done
    /\ returned.found
    /\ call.width = 2 /\ call.height = 2
    /\ call.cur_pos = Position(0, 0) /\ call.goal = Position(1, 1)
    /\ call.ignored_position = {Position(1, 0)}
    /\ returned.step = Position(0, 1)

\* ---- C13
\* The length of a shortest walk to `to` from a cell of `near`, n moves having
\* been made to reach `near`: one more cardinal move over the free cells at a
\* time; -1 when the walk cannot grow any further.
RECURSIVE Walk(_, _, _, _)
Walk(free, near, to, n) ==
    IF to \in near THEN n
    ELSE LET more == near \cup {q \in free : \E p \in near :
                                    Abs(p.x - q.x) + Abs(p.y - q.y) = 1}
         IN  IF more = near THEN -1 ELSE Walk(free, more, to, n + 1)

WalkDistance(free, from, to) == Walk(free, {from}, to, 0)

\* The cells of the call's grid that its ignore list leaves.
FreeCells == CellsOf(call.width, call.height) \ call.ignored_position

\* C13: for start # goal the cost a_star_pathfind returns is the length of a
\* shortest path over in-grid cardinal moves that avoids the ignored
\* positions, the Manhattan distance when nothing is ignored, and the step
\* returned is on such a path: its distance to the goal is cost - 1. The call
\* fails only when there is no path at all.
C13_CostIsShortest ==
    /\ (returned.done /\ returned.found /\ call.cur_pos # call.goal) =>
        /\ returned.cost = WalkDistance(FreeCells, call.cur_pos, call.goal)
        /\ call.ignored_position = {} =>
                returned.cost = Abs(call.cur_pos.x - call.goal.x)
                                + Abs(call.cur_pos.y - call.goal.y)
        /\ WalkDistance(FreeCells, returned.step, call.goal) = returned.cost - 1
        /\ OnWorldGrid =>
                Given \in a_star_pathfind(call.cur_pos, call.goal, call.ignored_position)
    /\ (returned.done /\ ~returned.found) =>
        /\ WalkDistance(FreeCells, call.cur_pos, call.goal) = -1
        /\ OnWorldGrid =>
                \A r \in a_star_pathfind(call.cur_pos, call.goal, call.ignored_position) :
                    ~r.found

\* A call whose ignore list forces a way round: the cost exceeds the
\* Manhattan distance.
C13_Witness ==
    /\ returned.done
    /\ returned.found
    /\ call.ignored_position # {}
    /\ returned.cost > Abs(call.cur_pos.x - call.goal.x) + Abs(call.cur_pos.y - call.goal.y)
    /\ returned.cost = WalkDistance(FreeCells, call.cur_pos, call.goal)

\* ---- C14
\* The Eater at the loop index has GetFood as its goal, every in-grid
\* neighbour of its cell is occupied, and its re-planning ends in a call of
\* the pathfinder that finds no path.
CorneredEater ==
    /\ Invoking
    /\ entities[i].kind = "eater"
    /\ LET self == entities[i]
           goal == select_goal(self, entities, removed_entity_indices)
       IN  /\ goal.goal = "GetFood"
           /\ \A q \in CellsOf(Width, Height) :
                Abs(q.x - self.position.x) + Abs(q.y - self.position.y) = 1
                    => get_entity_at(entities, removed_entity_indices, q) # 0
           /\ \E r \in GetFoodLoop(self, entities, removed_entity_indices,
                                   get_position(entities[goal.idx]), 1, {}) : r.panic

\* C14: when the ignore set built by an Eater's GetFood re-planning leaves no
\* path to its Food, the Eater stays where it is for the tick and the pass
\* goes on with the next entity.
C14_BlockedPathContained ==
    [][CorneredEater =>
        /\ pc' = "updating"
        /\ i' = i + 1
        /\ entities'[i].position = entities[i].position]_vars

\* ---- C15
\* C15: a pass over a World whose only entity is a FoodSpawner with
\* last_spawned + 1 >= spawn_every_x_ticks ends with exactly two entities, the
\* spawner and one new Food, whichever cell the generator picked.
C15_LoneSpawnerYieldsFood ==
    [][(/\ pc = "updating"
        /\ pc' = "idle"
        /\ Len(tick_start) = 1
        /\ tick_start[1].kind = "food_spawner"
        /\ tick_start[1].last_spawned + 1 >= tick_start[1].spawn_every_x_ticks)
        => /\ Len(entities') = 2
           /\ entities'[1].kind = "food_spawner"
           /\ entities'[2].kind = "food"]_vars

\* ---- C17
\* The thread is inside a section it entered through RwLock::write.
Writing(thread) ==
    IF thread = TickThread
    THEN thread_at[thread] \in {"locked", "ticking"}
    ELSE thread_at[thread] \in {"control", "controlled"}

\* The handler is inside the section in which it calls render().
Rendering(handler) == thread_at[handler] = "rendering"

\* C17: update_if_active and the control operations run under the write
\* lock and render() under a read lock; no render and no control operation
\* runs while the tick thread is inside its tick, two writing sections never
\* overlap, and render() never sees a World in the middle of a pass: its
\* pending-removal list is empty and nothing spawned waits to be appended.
C17_LockDiscipline ==
    /\ \A t \in {TickThread, WebsocketHandler} : Writing(t) => writer = t
    /\ \A h \in Handlers : Rendering(h) => h \in readers /\ writer = "none"
    /\ ~(Writing(TickThread) /\ Writing(WebsocketHandler))
    /\ pc = "updating" =>
            \E t \in {TickThread, WebsocketHandler} : Writing(t) /\ writer = t
    /\ \A h \in Handlers : Rendering(h) =>
            /\ pc = "idle"
            /\ removed_entity_indices = <<>>
            /\ spawned_entities = <<>>
            /\ i = 0

\* The tick thread is in the middle of a pass with a removal pending, while
\* one handler waits to write and the other to render.
C17_Witness ==
    /\ Writing(TickThread)
    /\ pc = "updating"
    /\ removed_entity_indices # <<>>
    /\ thread_at[WebsocketHandler] = "want_write"
    /\ thread_at[StatusHandler] = "want_read"

\* ---- C18
\* C18: a thread waiting for the lock is held up by the tick thread only
\* while an update_if_active call is executing: the tick thread holds the
\* lock, for reading or writing, at no other time, its sleep included.
C18_TickHoldsLockOnlyToUpdate ==
    (/\ thread_at[WebsocketHandler] = "want_write"
     /\ (writer = TickThread \/ TickThread \in readers))
        => thread_at[TickThread] \in {"locked", "ticking"}

\* ---- C19
\* C19: every execution of World::update, started by the tick thread or by
\* an "update" message, draws from one and the same generator instance.
C19_OneGenerator == Cardinality(generators_used) <= 1

\* ---- C20
InGrid(p) == 0 <= p.x /\ p.x < Width /\ 0 <= p.y /\ p.y < Height

\* The direction leads out of the grid from p.
AtEdge(p, direction) ==
    \/ direction = "Up" /\ p.y = 0
    \/ direction = "Right" /\ p.x = Width - 1
    \/ direction = "Down" /\ p.y = Height - 1
    \/ direction = "Left" /\ p.x = 0

\* C20: from a World whose entities are all inside the grid, every entity,
\* in the collection or spawned and waiting to be appended, stays inside
\* [0,width) x [0,height) whatever update() does; get_new_position gives a
\* cell of the grid, and at an edge the current position.
C20_PositionsInGrid ==
    /\ \A k \in 1..Len(entities) : InGrid(get_position(entities[k]))
    /\ \A k \in 1..Len(spawned_entities) : InGrid(get_position(spawned_entities[k]))
    /\ \A k \in 1..Len(entities) : \A d \in 1..Len(CARDINAL_DIRECTIONS) :
        LET p == get_position(entities[k])
            q == get_new_position(p, CARDINAL_DIRECTIONS[d])
        IN  /\ InGrid(q)
            /\ AtEdge(p, CARDINAL_DIRECTIONS[d]) => q = p

\* A pass in which an Eater has moved and an entity has been spawned.
C20_Witness ==
    /\ pc = "updating"
    /\ spawned_entities # <<>>
    /\ \E k \in 1..Len(entities) :
        /\ k < i
        /\ entities[k].kind = "eater"
        /\ entities[k].position # tick_start[k].position

\* ---- C21
\* How many Food entities of `ents` at the indices `among` lie on cell p.
FoodAt(ents, among, p) ==
    Cardinality({k \in among : ents[k].kind = "food" /\ ents[k].position = p})

\* The step at the loop index is an Eater's whose goal is GetFood(idx) and
\* whose Food is at most one cell away: the pathfinder returns cost 1.
EatsAt(idx) ==
    /\ entities[i].kind = "eater"
    /\ select_goal(entities[i], entities, removed_entity_indices) = Goal("GetFood", idx)
    /\ Abs(entities[idx].position.x - entities[i].position.x)
       + Abs(entities[idx].position.y - entities[i].position.y) <= 1

\* C21: a Food never moves; its index enters the pending-removal list only
\* in the step of an Eater in GetFood whose path to it costs 1; and the
\* removal step at the end of the pass takes out of the collection no Food
\* whose index was not marked.
C21_FoodLeavesOnlyEaten ==
    [][/\ (pc = "updating" /\ i <= Len(entities)) =>
            \A k \in 1..Len(entities) :
                entities[k].kind = "food" =>
                    /\ Len(entities') >= k
                    /\ entities'[k] = entities[k]
                    /\ (/\ Len(removed_entity_indices') > Len(removed_entity_indices)
                        /\ removed_entity_indices'[Len(removed_entity_indices')] = k)
                            => EatsAt(k)
       /\ (pc = "updating" /\ i > Len(entities) /\ pc' = "idle") =>
            \A p \in Cells :
                FoodAt(entities', 1..Len(entities'), p)
                    >= FoodAt(entities, {k \in 1..Len(entities) : ~Queued(k)}, p)
      ]_vars

\* ---- C22
\* The step at the loop index is an Eater's that ran to its end.
EaterStep == Invoking /\ entities[i].kind = "eater" /\ pc' = "updating"

\* The Eater's step took the Die branch: an index is queued for removal and
\* the Eater is returned with the unconditional increments only.
DiedInStep ==
    /\ Len(removed_entity_indices') = Len(removed_entity_indices) + 1
    /\ entities'[i] = [entities[i] EXCEPT !.hunger = entities[i].hunger + 1,
                                          !.age = entities[i].age + 1,
                                          !.last_reproduced = entities[i].last_reproduced + 1]

\* C22: the goal of the tick is selected from the values after the +1 to
\* hunger, age and ticks-since-reproduction: an Eater entering its step with
\* hunger 99 or age 1000 takes the Die branch in that step, and one entering
\* with hunger 19 does not reproduce in it.
C22_GoalFromIncremented ==
    [][EaterStep =>
            /\ (entities[i].hunger = DieHunger \/ entities[i].age = DieAge) => DiedInStep
            /\ entities[i].hunger = ReproduceHunger - 1
                    => spawned_entities' = spawned_entities]_vars

\* ---- C23
\* The goal update() selects for the Eater at the loop index.
StepGoal == select_goal(entities[i], entities, removed_entity_indices)

\* The four cells get_new_position gives the Eater at the loop index.
Candidates ==
    {get_new_position(entities[i].position, CARDINAL_DIRECTIONS[d]) :
        d \in 1..Len(CARDINAL_DIRECTIONS)}

\* The candidates get_entity_at reports unoccupied as the step begins.
FreeCandidates ==
    {p \in Candidates : get_entity_at(entities, removed_entity_indices, p) = 0}

\* C23: a wandering Eater moves only to a candidate cell that get_entity_at
\* reports unoccupied, so never onto a cell occupied by another entity, and
\* it keeps its position when none of the four candidates is unoccupied.
C23_WanderToFreeCell ==
    [][(EaterStep /\ StepGoal.goal = "Wander") =>
            /\ entities'[i].position # entities[i].position
                    => entities'[i].position \in FreeCandidates
            /\ FreeCandidates = {}
                    => entities'[i].position = entities[i].position]_vars

\* ---- C24
\* The entities the step at the loop index emitted.
Emitted == SubSeq(spawned_entities', Len(spawned_entities) + 1, Len(spawned_entities'))

\* C24: a reproducing Eater emits at most one offspring, a new Eater (age 0,
\* hunger 0, reproduction timer 0) on a candidate cell that is unoccupied;
\* its own reproduction timer is reset to 0 exactly when it emits one and
\* rises by 1 otherwise; with no unoccupied candidate it emits none; and its
\* position is unchanged in either case.
C24_ReproduceOnFreeCell ==
    [][(EaterStep /\ StepGoal.goal = "Reproduce") =>
            /\ Len(Emitted) <= 1
            /\ Len(Emitted) = 1 =>
                    \E p \in FreeCandidates : Emitted[1] = EaterNew(p)
            /\ entities'[i].last_reproduced =
                    IF Len(Emitted) = 1 THEN 0 ELSE entities[i].last_reproduced + 1
            /\ FreeCandidates = {} => Len(Emitted) = 0
            /\ entities'[i].position = entities[i].position]_vars

\* ---- C25
\* The costs the pathfinder can return to the Eater at the loop index for
\* the Food of its goal, nothing ignored.
PathCosts ==
    {r.cost : r \in {q \in a_star_pathfind(entities[i].position,
                                           entities[StepGoal.idx].position, {}) : q.found}}

\* C25: in GetFood, with path cost 1 the Eater queues the index of its
\* target Food, its hunger becomes max(0, hunger + 1 - 20) and it keeps its
\* position; with a cost above 1 it queues nothing and its hunger rises by 1.
C25_GetFoodEats ==
    [][(EaterStep /\ StepGoal.goal = "GetFood") =>
            /\ PathCosts = {1} =>
                    /\ removed_entity_indices' = Append(removed_entity_indices, StepGoal.idx)
                    /\ entities'[i].hunger = Max({0, entities[i].hunger + 1 - FoodReward})
                    /\ entities'[i].position = entities[i].position
            /\ (\A c \in PathCosts : c > 1) =>
                    /\ removed_entity_indices' = removed_entity_indices
                    /\ entities'[i].hunger = entities[i].hunger + 1]_vars

\* An Eater has just eaten the Food one cell away from it.
C25_Witness ==
    /\ pc = "updating"
    /\ i > 1
    /\ i - 1 <= Len(tick_start)
    /\ entities[i - 1].kind = "eater"
    /\ tick_start[i - 1].kind = "eater"
    /\ entities[i - 1].hunger = tick_start[i - 1].hunger + 1 - FoodReward
    /\ \E k \in 1..Len(entities) :
            /\ entities[k].kind = "food"
            /\ Len(removed_entity_indices) > 0
            /\ removed_entity_indices[Len(removed_entity_indices)] = k
            /\ Distance(entities[k].position, entities[i - 1].position) = 1

\* ---- C26
\* The in-grid cardinal neighbours of the Eater at the loop index in the
\* World of the GetFood branch, and those get_entity_at reports unoccupied.
PlanNeighbours == successors(PlanWidth, PlanHeight, entities[i].position, {})
FreePlanNeighbours ==
    {p \in PlanNeighbours : get_entity_at(entities, removed_entity_indices, p) = 0}

\* C26: in GetFood with path cost above 1, an Eater whose step runs to its
\* end is afterwards on an unoccupied neighbouring cell or on its own cell,
\* and it is on its own cell only if every in-grid neighbour is occupied.
C26_StaysOnlySurrounded ==
    [][(EaterStep /\ StepGoal.goal = "GetFood"
            /\ Distance(entities[StepGoal.idx].position, entities[i].position) > 1) =>
            /\ \/ entities'[i].position = entities[i].position
               \/ entities'[i].position \in FreePlanNeighbours
            /\ entities'[i].position = entities[i].position
                    => FreePlanNeighbours = {}]_vars

\* ---- C27
\* C27: a FoodSpawner with interval n whose counter is in 0..n-1 acts on
\* every n-th tick: in a step entered with a counter below n-1 the counter
\* rises by 1 and nothing is emitted; in the step entered with counter n-1
\* the counter is reset to 0 and either one Food is emitted, on a cell
\* get_entity_at reports unoccupied, or nothing is; the counter is in 0..n-1
\* after the step.
C27_FoodSpawnerEveryNth ==
    [][(Invoking /\ entities[i].kind = "food_spawner" /\ pc' = "updating"
            /\ entities[i].last_spawned \in 0..(entities[i].spawn_every_x_ticks - 1)) =>
            LET n == entities[i].spawn_every_x_ticks
                counter == entities[i].last_spawned
            IN  /\ entities'[i].kind = "food_spawner"
                /\ entities'[i].spawn_every_x_ticks = n
                /\ entities'[i].last_spawned \in 0..(n - 1)
                /\ IF counter + 1 = n
                   THEN /\ entities'[i].last_spawned = 0
                        /\ \/ Emitted = <<>>
                           \/ \E p \in Cells :
                                /\ get_entity_at(entities, removed_entity_indices, p) = 0
                                /\ Emitted = <<FoodNew(p)>>
                   ELSE /\ entities'[i].last_spawned = counter + 1
                        /\ Emitted = <<>>
                /\ removed_entity_indices' = removed_entity_indices]_vars

\* A FoodSpawner that entered the tick with counter n-1 has reset it and
\* emitted a Food.
C27_Witness ==
    /\ pc = "updating"
    /\ i = 2
    /\ entities[1].kind = "food_spawner"
    /\ tick_start[1].last_spawned = tick_start[1].spawn_every_x_ticks - 1
    /\ entities[1].last_spawned = 0
    /\ Len(spawned_entities) = 1
    /\ spawned_entities[1].kind = "food"

\* ---- C28
\* C28: in a step of the EaterSpawner with no Eater in the World the counter
\* rises by 1, and in the step in which it comes to exceed 20 (the 21st
\* eaterless tick from counter 0) the spawner instead resets it to 0 and
\* emits one Eater on an unoccupied cell, or nothing; in a step with an Eater
\* in the World the counter is unchanged; no Eater is emitted in any other
\* step.
C28_EaterSpawnerAfter20 ==
    [][(Invoking /\ entities[i].kind = "eater_spawner" /\ pc' = "updating") =>
            LET counter == entities[i].ticks_without_eater
                eaterless ==
                    Len(get_eater_entities(entities, removed_entity_indices)) = 0
            IN  IF eaterless /\ counter + 1 > SPAWN_AFTER_X_TICKS
                THEN /\ entities'[i].ticks_without_eater = 0
                     /\ \/ Emitted = <<>>
                        \/ \E p \in Cells :
                            /\ get_entity_at(entities, removed_entity_indices, p) = 0
                            /\ Emitted = <<EaterNew(p)>>
                ELSE /\ entities'[i].ticks_without_eater =
                            IF eaterless THEN counter + 1 ELSE counter
                     /\ Emitted = <<>>]_vars

\* ---- C29
\* C29: the position lookup of an Eater whose goal is Die always finds an
\* entity: the step of such an Eater never ends in the panic "entity not
\* found in world vector of entities", it queues an index of the collection.
C29_DieLookupFinds ==
    [][(Invoking /\ entities[i].kind = "eater" /\ StepGoal.goal = "Die") =>
            /\ pc' = "updating"
            /\ Len(removed_entity_indices') = Len(removed_entity_indices) + 1
            /\ removed_entity_indices'[Len(removed_entity_indices')] \in 1..Len(entities)
            /\ get_position(entities[removed_entity_indices'[Len(removed_entity_indices')]])
                    = entities[i].position]_vars

\* An Eater past the age limit has just taken its Die step.
C29_Witness ==
    /\ pc = "updating"
    /\ Len(removed_entity_indices) > 0
    /\ \E k \in 1..Len(entities) :
            /\ k = i - 1
            /\ k <= Len(tick_start)
            /\ entities[k].kind = "eater"
            /\ tick_start[k].kind = "eater"
            /\ tick_start[k].age > DieAge
            /\ entities[k].age = tick_start[k].age + 1
            /\ entities[k].position.x # entities[k].position.y

\* ---- C30
\* The loop of the pass is over and the removal step is next.
LoopOver == pc = "updating" /\ i > Len(entities)

\* C30: when the loop of a pass is over the pending-removal list holds
\* pairwise distinct indices inside the collection as it was at tick start;
\* the removal step then does not fail, takes out the entities at the queued
\* indices and no other, and leaves a collection whose length is the length
\* before, minus the number of queued indices, plus the number of spawned
\* entities.
C30_RemovalsDistinctInRange ==
    [][LoopOver =>
            /\ \A a, b \in 1..Len(removed_entity_indices) :
                    a # b => removed_entity_indices[a] # removed_entity_indices[b]
            /\ \A a \in 1..Len(removed_entity_indices) :
                    removed_entity_indices[a] \in 1..Len(tick_start)
            /\ pc' = "idle"
            /\ Len(entities') = Len(entities) - Len(removed_entity_indices)
                                    + Len(spawned_entities)
            /\ \A k \in 1..Len(entities) :
                    ~Queued(k) =>
                        \E m \in 1..(Len(entities) - Len(removed_entity_indices)) :
                            entities'[m] = entities[k]]_vars

\* ---- C31
\* How many entities of the given kind the collection holds.
CountOf(ents, kind) == Cardinality({k \in 1..Len(ents) : ents[k].kind = kind})

\* C31: spawners are never removed: no step of any update() call lowers the
\* number of FoodSpawners or the number of EaterSpawners in the collection,
\* and no step queues the index of a spawner for removal.
C31_SpawnersStay ==
    [][/\ CountOf(entities', "food_spawner") >= CountOf(entities, "food_spawner")
       /\ CountOf(entities', "eater_spawner") >= CountOf(entities, "eater_spawner")
       /\ \A k \in 1..Len(removed_entity_indices') :
            removed_entity_indices'[k] \in 1..Len(entities')
                => entities'[removed_entity_indices'[k]].kind
                        \notin {"food_spawner", "eater_spawner"}]_vars

\* ---- C32
\* C32: a pending manual-update request is not consumed while the World is
\* active: update_if_active on an active World starts its pass and leaves
\* the request set, and so do pause() and every step of a pass; the request
\* is cleared only by an update_if_active on a paused World, which starts
\* one pass in the same step.
C32_RequestSurvivesActiveTicks ==
    [][/\ (manual_update_requested /\ active /\ pc = "idle"
                /\ last_call' = "update_if_active")
            => /\ manual_update_requested'
               /\ pc' = "updating"
               /\ ticks' = ticks + 1
       /\ (manual_update_requested /\ ~manual_update_requested')
            => /\ ~active
               /\ pc = "idle"
               /\ last_call' = "update_if_active"
               /\ pc' = "updating"
               /\ ticks' = ticks + 1
       /\ (manual_update_requested /\ ~active /\ pc = "idle"
                /\ last_call' = "update_if_active")
            => ~manual_update_requested' /\ pc' = "updating"]_vars

\* update_if_active has started a pass on an active World with a request
\* pending, and the request is still set.
C32_Witness ==
    /\ pc = "updating"
    /\ last_call = "update_if_active"
    /\ active
    /\ manual_update_requested

\* ---- C33
\* C33: hunger, an i8, never overflows: in every state every Eater's hunger
\* is at most 126, so that the +1 of its next step stays within -128..127,
\* and no step of an Eater ends in the overflow panic.
C33_HungerBelowOverflow ==
    \A k \in 1..Len(entities) :
        entities[k].kind = "eater" => entities[k].hunger <= I8Max - 1

====
